---- MODULE Spec2Model ----
(***************************************************************************)
(* Click report of the hazard map (installClickReport): one aggregation    *)
(* per map click, seven lookup tasks per aggregation, a join on a counter  *)
(* (checkDone) and one write of the ordered report to the report panel.    *)
(*                                                                         *)
(* A step of the model is one run-to-completion turn of the browser event  *)
(* loop: the click handler, or the callback of one provider query together *)
(* with the promise continuations it resumes.                              *)
(***************************************************************************)
EXTENDS Integers, Sequences, FiniteSets, TLC

\* ------------------------------------------------------------------ bounds
\* clicks of a run in which every provider answer is left open
ReportClicks == 1
\* clicks of a run in which the answers are fixed by the clicked point
OverlapClicks == 2

MaxClicks == IF ReportClicks > OverlapClicks THEN ReportClicks ELSE OverlapClicks
Clicks == 1..MaxClicks

\* ------------------------------------------------------------ static data
\* keys of the results object, in the order of the literal
Slots == {"fire", "flood", "ozone", "pm", "drink", "landslide", "shaking"}

\* totalTasks = Object.keys(results).length
totalTasks == Cardinality(Slots)

\* the three CalEnviroScreen feature layers share one callback shape
CalEnviroSlots == {"ozone", "pm", "drink"}

\* provider calls of one click
FireQueries == {"fireLraContains", "fireSraContains", "fireLraNearby", "fireSraNearby"}
FloodQueries == {"floodContains", "floodNearby"}
Queries ==
  FireQueries \cup FloodQueries
    \cup {"ozoneContains", "pmContains", "drinkContains", "landslideIdentify", "shakingIdentify"}
NearbyQueries == {"fireLraNearby", "fireSraNearby", "floodNearby"}
\* the containment queries that have a proximity fallback
ContainmentFirst == {"fireLraContains", "fireSraContains", "floodContains"}

SlotOf(q) ==
  CASE q \in FireQueries -> "fire"
    [] q \in FloodQueries -> "flood"
    [] q = "ozoneContains" -> "ozone"
    [] q = "pmContains" -> "pm"
    [] q = "drinkContains" -> "drink"
    [] q = "landslideIdentify" -> "landslide"
    [] q = "shakingIdentify" -> "shaking"

\* What the callback of a provider call can be handed:
\*   features    err empty, a collection with at least one well-formed polygon feature
\*   nonpoly     err empty, features that are not polygons (edge distance NaN)
\*   badfeature  err empty, a feature without the members the code reads (null properties / geometry)
\*   empty       err empty, a collection with zero features
\*   error       err set
\*   malformed   err empty and no feature collection
\* and for the identify calls: value, novalue, error, malformed
ContainsOutcomes == {"features", "badfeature", "empty", "error", "malformed"}
NearbyOutcomes == ContainsOutcomes \cup {"nonpoly"}
IdentifyOutcomes == {"value", "novalue", "error", "malformed"}

\* outcomes in which the provider returned at least one feature
FeatureOutcomes == {"features", "badfeature", "nonpoly"}

\* The conditions of a click: "any" leaves every answer open; "inZone" is a point
\* inside a polygon of every layer and with a raster value; "remote" is a point
\* with no feature within reach of any layer; under "down" every provider call
\* ends in an error, under "garbled" in a response without a feature collection.
Worlds == {"any", "inZone", "remote", "down", "garbled"}

OutcomesOf(q, w) ==
  LET all == IF q \in NearbyQueries THEN NearbyOutcomes
             ELSE IF q \in {"landslideIdentify", "shakingIdentify"} THEN IdentifyOutcomes
             ELSE ContainsOutcomes
  IN CASE w = "any" -> all
       [] w = "inZone" -> all \cap {"features", "value"}
       [] w = "remote" -> all \cap {"empty", "novalue"}
       [] w = "down" -> {"error"}
       [] w = "garbled" -> {"malformed"}

\* a message of the report: the slot it belongs to and which text it is
Msg(slot, kind) == <<slot, kind>>

\* const results = { fire: "... No data.", ... }
InitialResults == [s \in Slots |-> Msg(s, "NoData")]

VARIABLES
  scenario,     \* which bounded run this is: "report" | "overlap" (clicks), "helper" (one
                \*   helper call), "ev" (the EV layer), "zoom" (the zoom-driven overlays)
  nclicks,      \* number of click events so far
  world,        \* world[c]: the point of click c
  clickMarker,  \* the click whose marker is on the map (0: none)
  results,      \* results[c]: the results object of click c's closure
  completed,    \* completed[c]: the counter of click c's closure
  best,         \* best[c]: `best` of nearestByEdgeDistanceAcross, "none" | "LRA" | "SRA"
  inflight,     \* provider calls whose callback has not run yet
  panel,        \* innerHTML of #report-content
  spinner,      \* TRUE while #loading-spinner is shown
  \* instrumentation (a counting mock of the providers and of the DOM helpers)
  issued,       \* issued[c]: provider calls made for click c
  answered,     \* answered[c]: fire and flood containment calls of click c that returned a feature
  edgeCalls,    \* edgeCalls[c]: slots for which getDistanceToPolygonEdge ran
  settled,      \* settled[c][s]: checkDone calls made by the task of slot s
  dead,         \* dead[c]: slots whose callback ended on an uncaught exception
  shows,        \* shows[c]: showSpinner calls of click c
  hides,        \* hides[c]: hideSpinner calls of click c
  renders,      \* renders[c]: report writes of click c
  renderedBy    \* renderedBy[c]: the slot whose checkDone wrote the report of click c

\* one call of a helper function, for the runs that check a helper on its own
VARIABLES
  call,         \* the function called and its arguments ("none": no call)
  ret           \* its return value ("pending": not returned yet)

fnVars == <<call, ret>>

\* the EV chargers layer (createEvChargersLayer) and the clock its debounce timer runs on
VARIABLES
  evOn,         \* map.hasLayer(layer): the overlay is enabled
  isLoading,    \* the busy flag
  timers,       \* the pending timeouts of fetchDebounced, each as the ticks left until it expires
  evLayer,      \* the markers in the layer group, each <<fetch, position in its response>>
  fetching,     \* the fetches in flight, each with the viewport it was issued for
  nfetch,       \* fetches started so far
  view,         \* the viewport: the number of viewport changes so far
  shown,        \* the response that last reached the data handler: its fetch, its kind and
                \*   the positions of its entries that have both coordinates
  quiet,        \* ticks since the last moveend
  burst,        \* moveend events received since a moveend last found no timeout pending
  debFetches,   \* fetches started by a timeout since that moveend
  dropped,      \* a fetch attempt met the busy flag and no moveend or overlayadd followed:
                \*   "bare" no timeout was pending then, "armed" one was; "none" otherwise
  failed        \* a fetch has failed and no moveend, overlayadd or fetch followed:
                \*   "bare" no timeout was pending then, "armed" one was; "none" otherwise

evVars ==
  <<evOn, isLoading, timers, evLayer, fetching, nfetch, view, shown, quiet, burst, debFetches, dropped,
    failed>>

\* the overlays on the map and the zoom they are switched by
VARIABLES
  zoom,         \* map.getZoom()
  displayed,    \* the overlays of the layers control that are on the map (map.hasLayer)
  faultsGroup,  \* the sub-layers in the group of the faults overlay
  syncing       \* syncToZoom is registered as a zoomend listener

zoomVars == <<zoom, displayed, faultsGroup, syncing>>

\* the variables of the parts of the page that a run leaves alone
restVars == <<fnVars, evVars, zoomVars>>

vars ==
  <<scenario, nclicks, world, clickMarker, results, completed, best, inflight, panel, spinner,
    issued, answered, edgeCalls, settled, dead, shows, hides, renders, renderedBy, restVars>>

\* the variables of the click report
clickVars ==
  <<scenario, nclicks, world, clickMarker, results, completed, best, inflight, panel, spinner,
    issued, answered, edgeCalls, settled, dead, shows, hides, renders, renderedBy>>

\* a call that has not returned
NotReturned == [kind |-> "pending"]

\* no helper call is being checked
FnIdle == call = [fn |-> "none"] /\ ret = NotReturned

\* the EV layer as createEvChargersLayer leaves it: not on the map, empty, nothing pending
InitEv ==
  /\ evOn = FALSE
  /\ isLoading = FALSE
  /\ timers = {}
  /\ evLayer = {}
  /\ fetching = {}
  /\ nfetch = 0
  /\ view = 0
  /\ shown = [id |-> 0, view |-> 0, kind |-> "none", located |-> {}]
  /\ quiet = 0
  /\ burst = 0
  /\ debFetches = 0
  /\ dropped = "none"
  /\ failed = "none"

\* ------------------------------------------------- zoom-driven overlays
\* DEFAULT_VIEW.zoom
DEFAULT_ZOOM == 6

\* UI.ZOOM_ROADS_SWITCH: at or below it the highways only, above it all roads
ZOOM_ROADS_SWITCH == 10

\* UI.ZOOM_POI_MIN: the POI overlays appear at or above it
ZOOM_POI_MIN == 14

\* the zooms of a run: the default view and the levels MinZoom..MaxZoom around the switch points
MinZoom == 9
MaxZoom == 15
Zooms == {DEFAULT_ZOOM} \cup (MinZoom..MaxZoom)

\* the overlays registered with toggleAtZoom, in the order of their registration
POI_OVERLAYS ==
  <<"schoolsLayer", "stateBridges", "localBridges", "healthCenters", "airports", "powerPlants",
    "evChargers", "universities", "fireStations", "parks">>

\* the overlays of the layers control (LAYER_TOGGLES) that a zoom rule or a zoom listener manages
PoiOverlays == {POI_OVERLAYS[i] : i \in DOMAIN POI_OVERLAYS}

ZoomToggles == PoiOverlays \cup {"highwayLayer", "allRoadsLayer", "faultsLayer"}

\* a POI overlay shown only above its minimum zoom, not at it
ToggleAboveZoom(layers, layer, minZoom, z) ==
  IF z > minZoom THEN layers \cup {layer} ELSE layers \ {layer}

\* the zoomend listener of toggleAtZoom(map, layer, minZoom), run at zoom z on the layers on the map
toggleAtZoom(layers, layer, minZoom, z) ==
  IF z >= minZoom
  THEN IF layer \notin layers THEN layers \cup {layer} ELSE layers
  ELSE IF layer \in layers THEN layers \ {layer} ELSE layers

\* the roads listener switching one zoom level early
RoadsBelowSwitch(layers, z) ==
  IF z < ZOOM_ROADS_SWITCH
  THEN (layers \ {"allRoadsLayer"}) \cup {"highwayLayer"}
  ELSE (layers \cup {"allRoadsLayer"}) \ {"highwayLayer"}

\* the roads zoomend listener, run at zoom z on the layers on the map
RoadsZoomEnd(layers, z) ==
  IF z <= ZOOM_ROADS_SWITCH
  THEN LET kept == IF "allRoadsLayer" \in layers THEN layers \ {"allRoadsLayer"} ELSE layers
       IN IF "highwayLayer" \notin kept THEN kept \cup {"highwayLayer"} ELSE kept
  ELSE LET added == IF "allRoadsLayer" \notin layers THEN layers \cup {"allRoadsLayer"} ELSE layers
       IN IF "highwayLayer" \in added THEN added \ {"highwayLayer"} ELSE added

\* the toggleAtZoom listeners from the i-th registration on
RECURSIVE PoiZoomEnd(_, _, _)
PoiZoomEnd(layers, i, z) ==
  IF i > Len(POI_OVERLAYS) THEN layers
  ELSE PoiZoomEnd(toggleAtZoom(layers, POI_OVERLAYS[i], ZOOM_POI_MIN, z), i + 1, z)

\* map.fire("zoomend") at zoom z: the roads listener, then the toggleAtZoom listeners
ZoomEndListeners(layers, z) == PoiZoomEnd(RoadsZoomEnd(layers, z), 1, z)

\* SWITCH_ZOOM of the faults overlay
SWITCH_ZOOM == 11

\* the faults group switching to the local layer one zoom level late
SyncAboveSwitch(z) == {IF z > SWITCH_ZOOM THEN "local" ELSE "regional"}

\* syncToZoom at zoom z: the group cleared, then the one layer the zoom wants added
syncToZoom(z) ==
  LET wantLocal == z >= SWITCH_ZOOM
      cleared == {}
  IN cleared \cup {IF wantLocal THEN "local" ELSE "regional"}

\* the page at the end of main: the map at the default view, no overlay added but by the
\* map.fire("zoomend") that ends main, the faults group empty and off the map
InitZoom ==
  /\ zoom = DEFAULT_ZOOM
  /\ displayed = ZoomEndListeners({}, DEFAULT_ZOOM)
  /\ faultsGroup = {}
  /\ syncing = FALSE

\* a zoom to level z ends: the zoomend listeners run, syncToZoom among them while it is registered
ZoomEnd(z) ==
  /\ scenario = "zoom"
  /\ zoom' = z
  /\ displayed' = ZoomEndListeners(displayed, z)
  /\ faultsGroup' = IF syncing THEN syncToZoom(z) ELSE faultsGroup
  /\ UNCHANGED syncing
  /\ UNCHANGED <<clickVars, fnVars, evVars>>

\* the user ticks an overlay in the layers control: map.addLayer, and for the faults group
\* its "add" listener
LayersControlAdd(layer) ==
  /\ scenario = "zoom"
  /\ layer \notin displayed
  /\ displayed' = displayed \cup {layer}
  /\ IF layer = "faultsLayer"
     THEN faultsGroup' = syncToZoom(zoom) /\ syncing' = TRUE
     ELSE UNCHANGED <<faultsGroup, syncing>>
  /\ UNCHANGED zoom
  /\ UNCHANGED <<clickVars, fnVars, evVars>>

\* the user unticks an overlay in the layers control: map.removeLayer, and for the faults
\* group its "remove" listener
LayersControlRemove(layer) ==
  /\ scenario = "zoom"
  /\ layer \in displayed
  /\ displayed' = displayed \ {layer}
  /\ IF layer = "faultsLayer"
     THEN syncing' = FALSE /\ faultsGroup' = {}
     ELSE UNCHANGED <<faultsGroup, syncing>>
  /\ UNCHANGED zoom
  /\ UNCHANGED <<clickVars, fnVars, evVars>>

Req(c, q) == [click |-> c, query |-> q]


\* ------------------------------------------------- the join (checkDone)
\* the join opening one settle early
ReportReadyEarly(n) == n >= totalTasks - 1

\* if (completed === totalTasks)
ReportReady(n) == n = totalTasks

\* the report listed by sorted key instead of by the declared order
OrderedAlphabetical(r) ==
  <<r["drink"], r["fire"], r["flood"], r["landslide"], r["ozone"], r["pm"], r["shaking"]>>

\* const ordered = [results.fire, results.flood, ...]
Ordered(r) ==
  <<r["fire"], r["flood"], r["ozone"], r["pm"], r["drink"], r["landslide"], r["shaking"]>>

\* checkDone with hideSpinner outside the if: the spinner is hidden at every settle
CheckDoneHidesEach(c, slot, r) ==
  LET n == completed[c] + 1 IN
  /\ completed' = [completed EXCEPT ![c] = n]
  /\ settled' = [settled EXCEPT ![c][slot] = @ + 1]
  /\ spinner' = FALSE
  /\ hides' = [hides EXCEPT ![c] = @ + 1]
  /\ IF ReportReady(n)
       THEN /\ panel' = [click |-> c, kind |-> "report", body |-> Ordered(r)]
            /\ renders' = [renders EXCEPT ![c] = @ + 1]
            /\ renderedBy' = [renderedBy EXCEPT ![c] = slot]
       ELSE UNCHANGED <<panel, renders, renderedBy>>

\* checkDone with `completed` declared outside the click handler: one counter for all clicks
CheckDoneSharedCounter(c, slot, r) ==
  LET n == completed[c] + 1 IN
  /\ completed' = [d \in DOMAIN completed |-> completed[d] + 1]
  /\ settled' = [settled EXCEPT ![c][slot] = @ + 1]
  /\ IF ReportReady(n)
       THEN /\ panel' = [click |-> c, kind |-> "report", body |-> Ordered(r)]
            /\ renders' = [renders EXCEPT ![c] = @ + 1]
            /\ renderedBy' = [renderedBy EXCEPT ![c] = slot]
            /\ spinner' = FALSE
            /\ hides' = [hides EXCEPT ![c] = @ + 1]
       ELSE UNCHANGED <<panel, renders, renderedBy, spinner, hides>>

\* checkDone() called by the task of `slot` of click c; r is results as the caller left it
CheckDone(c, slot, r) ==
  LET n == completed[c] + 1 IN
  /\ completed' = [completed EXCEPT ![c] = n]
  /\ settled' = [settled EXCEPT ![c][slot] = @ + 1]
  /\ IF ReportReady(n)
       THEN /\ panel' = [click |-> c, kind |-> "report", body |-> Ordered(r)]
            /\ renders' = [renders EXCEPT ![c] = @ + 1]
            /\ renderedBy' = [renderedBy EXCEPT ![c] = slot]
            /\ spinner' = FALSE
            /\ hides' = [hides EXCEPT ![c] = @ + 1]
       ELSE UNCHANGED <<panel, renders, renderedBy, spinner, hides>>

\* ------------------------------------------ what each callback decides
\* The effect of one callback: the message it writes to its slot ("keep": none),
\* whether it reaches checkDone, the provider calls it makes, whether it ends on
\* an uncaught exception, whether it ran getDistanceToPolygonEdge, and `best`.
Effect(write, done, next, threw, edge, b) ==
  [write |-> write, done |-> done, next |-> next, threw |-> threw, edge |-> edge, best |-> b]

\* the fire task starting the SRA containment and the LRA proximity query together
FireNextParallel(q) ==
  CASE q = "fireLraContains" -> {"fireSraContains", "fireLraNearby"}
    [] q = "fireSraContains" -> {}
    [] q = "fireLraNearby" -> {"fireSraNearby"}
    [] q = "fireSraNearby" -> {}

\* the query the fire task makes after `q` gave no containing feature / was ranked
FireNext(q) ==
  CASE q = "fireLraContains" -> {"fireSraContains"}
    [] q = "fireSraContains" -> {"fireLraNearby"}
    [] q = "fireLraNearby" -> {"fireSraNearby"}
    [] q = "fireSraNearby" -> {}

\* !res.err && res.fc?.features?.length
FireHit(o) == o \in {"features", "badfeature"}

\* fire task after `await queryContains(layers.fireHazard<area>, e.latlng)`
FireContainsEffect(q, area, o, b) ==
  IF FireHit(o)
    THEN IF o = "badfeature"
           \* features[0].properties.FHSZ_Description throws: catch, finally
           THEN Effect("Error", TRUE, {}, FALSE, FALSE, b)
           ELSE Effect("Inside" \o area, TRUE, {}, FALSE, FALSE, b)
    ELSE Effect("keep", FALSE, FireNext(q), FALSE, FALSE, b)

\* one iteration of the loop of nearestByEdgeDistanceAcross, and the end of the
\* fire task after the last one; `closer` is dist < best.dist
FireNearbyEffect(q, lyr, o, b, closer) ==
  LET nb == IF o = "features" /\ (b = "none" \/ closer) THEN lyr ELSE b
      edge == o \in {"features", "nonpoly", "badfeature"}
  IN IF o = "badfeature"
       \* getDistanceToPolygonEdge / f.properties throws inside the fire task's try
       THEN Effect("Error", TRUE, {}, FALSE, edge, b)
       ELSE IF FireNext(q) # {}
              THEN Effect("keep", FALSE, FireNext(q), FALSE, edge, nb)
              ELSE Effect(IF nb = "none" THEN "NoNearby" ELSE "Nearest" \o nb,
                          TRUE, {}, FALSE, edge, nb)

\* the flood callback falling to the proximity query also when a feature contains the point
FloodContainsAlwaysNearby(o) ==
  CASE o \in {"badfeature", "malformed"} -> Effect("Error", TRUE, {}, FALSE, FALSE, "none")
    [] o \in {"features", "empty", "error"} ->
         Effect("keep", FALSE, {"floodNearby"}, FALSE, FALSE, "none")

\* callback of layers.floodLayer.query().contains(e.latlng).run
FloodContainsEffect(o) ==
  CASE o = "features" -> Effect("Inside", TRUE, {}, FALSE, FALSE, "none")
    [] o \in {"badfeature", "malformed"} -> Effect("Error", TRUE, {}, FALSE, FALSE, "none")
    [] o \in {"empty", "error"} -> Effect("keep", FALSE, {"floodNearby"}, FALSE, FALSE, "none")

\* callback of the nearby query of getClosestFeatureByEdgeDistance (flood)
FloodNearbyEffect(o) ==
  CASE o = "features" -> Effect("Nearest", TRUE, {}, FALSE, TRUE, "none")
    [] o = "nonpoly" -> Effect("NoNearby", TRUE, {}, FALSE, TRUE, "none")
    [] o \in {"empty", "error"} -> Effect("NoNearby", TRUE, {}, FALSE, FALSE, "none")
    \* fc.features of a missing collection throws in the callback, outside any try
    [] o = "malformed" -> Effect("keep", FALSE, {}, TRUE, FALSE, "none")
    \* getDistanceToPolygonEdge / bestFeature.properties throws in the callback
    [] o = "badfeature" -> Effect("keep", FALSE, {}, TRUE, TRUE, "none")

\* callback of the ozone, PM2.5 and drinking-water containment queries
CalEnviroEffect(o) ==
  CASE o = "features" -> Effect("Value", TRUE, {}, FALSE, FALSE, "none")
    [] o \in {"badfeature", "malformed"} -> Effect("Error", TRUE, {}, FALSE, FALSE, "none")
    [] o \in {"empty", "error"} -> Effect("keep", TRUE, {}, FALSE, FALSE, "none")

\* landslide task after `await identifyLandslideAt(map, e.latlng)`
LandslideEffect(o) ==
  CASE o = "value" -> Effect("Value", TRUE, {}, FALSE, FALSE, "none")
    [] o = "error" -> Effect("Error", TRUE, {}, FALSE, FALSE, "none")
    [] o \in {"novalue", "malformed"} -> Effect("keep", TRUE, {}, FALSE, FALSE, "none")

\* shaking task after `await identifyMMIAt(e.latlng)`: identifyMMIAt resolves null on error
ShakingEffect(o) ==
  CASE o = "value" -> Effect("Value", TRUE, {}, FALSE, FALSE, "none")
    [] o \in {"novalue", "error", "malformed"} -> Effect("keep", TRUE, {}, FALSE, FALSE, "none")

\* ----------------------------------------------------------- the actions
\* the click handler stopping after the flood query
LaunchedUpToFlood == {"fireLraContains", "floodContains"}

\* the provider calls the click handler makes before it returns
LaunchedAtClick ==
  {"fireLraContains", "floodContains", "ozoneContains", "pmContains", "drinkContains",
   "landslideIdentify", "shakingIdentify"}

ClickBudget == IF scenario = "report" THEN ReportClicks ELSE OverlapClicks
ClickWorlds == IF scenario = "report" THEN {"any", "down", "garbled"} ELSE {"inZone", "remote"}

\* map.on("click", ...)
Click ==
  /\ nclicks < ClickBudget
  /\ \E w \in ClickWorlds :
       LET c == nclicks + 1 IN
       /\ nclicks' = c
       /\ world' = [world EXCEPT ![c] = w]
       /\ spinner' = TRUE
       /\ shows' = [shows EXCEPT ![c] = @ + 1]
       /\ clickMarker' = c
       /\ panel' = [click |-> c, kind |-> "loading", body |-> <<>>]
       /\ results' = [results EXCEPT ![c] = InitialResults]
       /\ completed' = [completed EXCEPT ![c] = 0]
       /\ best' = [best EXCEPT ![c] = "none"]
       /\ inflight' = inflight \cup {Req(c, q) : q \in LaunchedAtClick}
       /\ issued' = [issued EXCEPT ![c] = LaunchedAtClick]
  /\ UNCHANGED <<scenario, answered, edgeCalls, settled, dead, hides, renders, renderedBy>>
  /\ UNCHANGED restVars

\* the callback of provider call q of click c runs with outcome o and has effect e
Callback(c, q, o, e) ==
  LET slot == SlotOf(q)
      r == IF e.write = "keep" THEN results[c]
           ELSE [results[c] EXCEPT ![slot] = Msg(slot, e.write)]
  IN /\ Req(c, q) \in inflight
     /\ inflight' = (inflight \ {Req(c, q)}) \cup {Req(c, n) : n \in e.next}
     /\ issued' = [issued EXCEPT ![c] = @ \cup e.next]
     /\ answered' =
          [answered EXCEPT
             ![c] = IF q \in ContainmentFirst /\ o \in FeatureOutcomes THEN @ \cup {q} ELSE @]
     /\ edgeCalls' = [edgeCalls EXCEPT ![c] = IF e.edge THEN @ \cup {slot} ELSE @]
     /\ dead' = [dead EXCEPT ![c] = IF e.threw THEN @ \cup {slot} ELSE @]
     /\ results' = [results EXCEPT ![c] = r]
     /\ best' = [best EXCEPT ![c] = e.best]
     /\ IF e.done
          THEN CheckDone(c, slot, r)
          ELSE UNCHANGED <<completed, settled, panel, renders, renderedBy, spinner, hides>>
     /\ UNCHANGED <<scenario, nclicks, world, clickMarker, shows>>
     /\ UNCHANGED restVars

FireLraContainsCb(c) ==
  \E o \in OutcomesOf("fireLraContains", world[c]) :
    Callback(c, "fireLraContains", o, FireContainsEffect("fireLraContains", "LRA", o, best[c]))

FireSraContainsCb(c) ==
  \E o \in OutcomesOf("fireSraContains", world[c]) :
    Callback(c, "fireSraContains", o, FireContainsEffect("fireSraContains", "SRA", o, best[c]))

FireLraNearbyCb(c) ==
  \E o \in OutcomesOf("fireLraNearby", world[c]) :
    Callback(c, "fireLraNearby", o, FireNearbyEffect("fireLraNearby", "LRA", o, best[c], FALSE))

FireSraNearbyCb(c) ==
  \E o \in OutcomesOf("fireSraNearby", world[c]), closer \in BOOLEAN :
    Callback(c, "fireSraNearby", o, FireNearbyEffect("fireSraNearby", "SRA", o, best[c], closer))

FloodContainsCb(c) ==
  \E o \in OutcomesOf("floodContains", world[c]) :
    Callback(c, "floodContains", o, FloodContainsEffect(o))

FloodNearbyCb(c) ==
  \E o \in OutcomesOf("floodNearby", world[c]) :
    Callback(c, "floodNearby", o, FloodNearbyEffect(o))

CalEnviroCb(c, s) ==
  \E o \in OutcomesOf(s \o "Contains", world[c]) :
    Callback(c, s \o "Contains", o, CalEnviroEffect(o))

LandslideCb(c) ==
  \E o \in OutcomesOf("landslideIdentify", world[c]) :
    Callback(c, "landslideIdentify", o, LandslideEffect(o))

ShakingCb(c) ==
  \E o \in OutcomesOf("shakingIdentify", world[c]) :
    Callback(c, "shakingIdentify", o, ShakingEffect(o))

\* ------------------------------------------------------- specifications
InitClick ==
  /\ nclicks = 0
  /\ world = [c \in Clicks |-> "any"]
  /\ clickMarker = 0
  /\ results = [c \in Clicks |-> InitialResults]
  /\ completed = [c \in Clicks |-> 0]
  /\ best = [c \in Clicks |-> "none"]
  /\ inflight = {}
  /\ panel = [click |-> 0, kind |-> "blank", body |-> <<>>]
  /\ spinner = FALSE
  /\ issued = [c \in Clicks |-> {}]
  /\ answered = [c \in Clicks |-> {}]
  /\ edgeCalls = [c \in Clicks |-> {}]
  /\ settled = [c \in Clicks |-> [s \in Slots |-> 0]]
  /\ dead = [c \in Clicks |-> {}]
  /\ shows = [c \in Clicks |-> 0]
  /\ hides = [c \in Clicks |-> 0]
  /\ renders = [c \in Clicks |-> 0]
  /\ renderedBy = [c \in Clicks |-> "none"]

\* the parts of the page outside the click report, at rest
RestIdle == FnIdle /\ InitEv /\ InitZoom

Init == scenario = "report" /\ InitClick /\ RestIdle
InitOverlap == scenario = "overlap" /\ InitClick /\ RestIdle

Next ==
  \/ Click
  \/ \E c \in Clicks : FireLraContainsCb(c)
  \/ \E c \in Clicks : FireSraContainsCb(c)
  \/ \E c \in Clicks : FireLraNearbyCb(c)
  \/ \E c \in Clicks : FireSraNearbyCb(c)
  \/ \E c \in Clicks : FloodContainsCb(c)
  \/ \E c \in Clicks : FloodNearbyCb(c)
  \/ \E c \in Clicks, s \in CalEnviroSlots : CalEnviroCb(c, s)
  \/ \E c \in Clicks : LandslideCb(c)
  \/ \E c \in Clicks : ShakingCb(c)

\* one click, every provider answer open
Spec == Init /\ [][Next]_vars
\* overlapping clicks, the answers fixed by the clicked point
SpecOverlap == InitOverlap /\ [][Next]_vars

\* ------------------------------------------------------------ the claims
Started == 1..nclicks

\* the provider calls of slot s of click c whose callback has not run
Pending(c, s) == {q \in Queries : SlotOf(q) = s /\ Req(c, q) \in inflight}

\* every provider call made for click c has invoked its callback
Quiescent(c) == \A q \in Queries : Req(c, q) \notin inflight

\* the order in which the report has to list the slots
SlotOrder == <<"fire", "flood", "ozone", "pm", "drink", "landslide", "shaking">>

C2_FixedOrder ==
  panel.kind = "report" =>
    \A i \in 1..7 :
      /\ panel.body[i] = results[panel.click][SlotOrder[i]]
      /\ panel.body[i][1] = SlotOrder[i]

\* the report is on the panel and the slot listed first settled last
C2_Witness == panel.kind = "report" /\ renderedBy[panel.click] = "fire"

\* C3: for every combination of provider outcomes each task calls checkDone
\* exactly once: a task that has ended has settled its slot once, no slot is
\* settled twice and the counter does not exceed seven.
C3_EachTaskSettlesOnce ==
  \A c \in Started :
    /\ completed[c] <= 7
    /\ \A s \in Slots :
         /\ settled[c][s] <= 1
         /\ Pending(c, s) = {} => settled[c][s] = 1

\* the callback of provider call q of click c
CallbackOf(c, q) ==
  CASE q = "fireLraContains" -> FireLraContainsCb(c)
    [] q = "fireSraContains" -> FireSraContainsCb(c)
    [] q = "fireLraNearby" -> FireLraNearbyCb(c)
    [] q = "fireSraNearby" -> FireSraNearbyCb(c)
    [] q = "floodContains" -> FloodContainsCb(c)
    [] q = "floodNearby" -> FloodNearbyCb(c)
    [] q = "ozoneContains" -> CalEnviroCb(c, "ozone")
    [] q = "pmContains" -> CalEnviroCb(c, "pm")
    [] q = "drinkContains" -> CalEnviroCb(c, "drink")
    [] q = "landslideIdentify" -> LandslideCb(c)
    [] q = "shakingIdentify" -> ShakingCb(c)

\* C4: an error or exception in one task of a click does not keep the other
\* tasks from being launched or from settling, nor the report from being
\* rendered once all seven have settled: every task is launched at the click,
\* a slot is unsettled only while its own provider call is outstanding or after
\* its own callback threw, an outstanding callback can always run, and seven
\* settled slots mean the report is written.
C4_FailuresStayLocal ==
  \A c \in Started :
    /\ \A s \in Slots : \E q \in issued[c] : SlotOf(q) = s
    /\ \A s \in Slots : settled[c][s] = 1 \/ Pending(c, s) # {} \/ s \in dead[c]
    /\ \A q \in Queries : Req(c, q) \in inflight => ENABLED CallbackOf(c, q)
    /\ completed[c] = 7 => renders[c] = 1

\* one callback threw, another slot holds its error message, and the six other slots settled
C4_Witness ==
  \E c \in Started :
    /\ "flood" \in dead[c]
    /\ results[c]["fire"] = Msg("fire", "Error")
    /\ completed[c] = 6

\* C5: whenever a provider call made for a slot fails (error or malformed
\* response), the slot settles with its 'Error fetching data' message.
C5_FailureShowsError ==
  \A c \in Started : \A s \in Slots :
    world[c] \in {"down", "garbled"} /\ settled[c][s] = 1 => results[c][s] = Msg(s, "Error")

\* C6: once every provider call issued for a click has invoked its callback,
\* all seven slots are settled, the report is rendered and the spinner hidden.
C6_CallbacksDoneImpliesReport ==
  \A c \in Started :
    Quiescent(c) => completed[c] = 7 /\ renders[c] = 1 /\ hides[c] = 1 /\ ~spinner

\* C7: only the most recently started aggregation writes its report: a report
\* on the panel is the report of the latest click.
C7_OnlyLatestRenders == panel.kind = "report" => panel.click = nclicks

ContainedMsgs(q) ==
  CASE q = "fireLraContains" -> {Msg("fire", "InsideLRA")}
    [] q = "fireSraContains" -> {Msg("fire", "InsideSRA")}
    [] q = "floodContains" -> {Msg("flood", "Inside")}

\* no proximity query and no edge distance for the slot of containment query q
NoFallback(c, q) ==
  /\ \A n \in NearbyQueries : SlotOf(n) = SlotOf(q) => n \notin issued[c]
  /\ SlotOf(q) \notin edgeCalls[c]

C10_FireSequential ==
  \A c \in Started :
    LET done(q) == q \in issued[c] /\ Req(c, q) \notin inflight
        miss(q) == done(q) /\ q \notin answered[c]
    IN /\ Cardinality(Pending(c, "fire")) <= 1
       /\ "fireSraContains" \in issued[c] => miss("fireLraContains")
       /\ "fireLraNearby" \in issued[c] => miss("fireLraContains") /\ miss("fireSraContains")
       /\ "fireSraNearby" \in issued[c] => done("fireLraNearby")

\* the last fire sub-query is outstanding
C10_Witness == \E c \in Started : Req(c, "fireSraNearby") \in inflight

-----------------------------------------------------------------------------
\* DISTANCE HELPERS. A number of miles is an integer count of thousandths of a mile;
\* the text of a number with two decimals is the pair <<whole miles, hundredths>>.

\* longest feature list a proximity query returns
MaxFeatures == 3

\* the not-a-number value
NaN == -1

\* the starting value of a running minimum
Infinity == 1000000

\* distances from the click to a polygon's edge, as turf.distance gives them
RawDistances == {4, 5, 14}

GeometryTypes == {"Polygon", "MultiPolygon", "Point"}

\* the features a proximity query can return (each has a geometry and properties): polygons at
\* every distance, a multipolygon and a point
Features ==
  {f \in [geom : GeometryTypes, raw : RawDistances] :
     \/ f.geom = "Polygon"
     \/ f.geom = "MultiPolygon" /\ f.raw = 5
     \/ f.geom = "Point" /\ f.raw = 4}

RECURSIVE SeqsUpTo(_, _)
SeqsUpTo(S, n) ==
  IF n = 0 THEN {<<>>}
  ELSE LET shorter == SeqsUpTo(S, n - 1)
       IN shorter \cup {Append(q, x) : q \in {t \in shorter : Len(t) = n - 1}, x \in S}

FeatureLists == SeqsUpTo(Features, MaxFeatures)

Labels == {"Flood Hazard Zone", "Fire Hazard Zone"}

\* Number.prototype.toFixed(2): round to hundredths, written as text
toFixed2(x) == LET h == (x + 5) \div 10 IN <<h \div 100, h % 100>>

\* what getDistanceToPolygonEdge returns for a geometry without an edge: NaN, whose text is no number
NoNumber == <<>>

\* parseFloat of the text of a number, or of NaN
parseFloat(t) == IF t = NoNumber THEN NaN ELSE t[1] * 1000 + t[2] * 10

isNaN(x) == x = NaN

getDistanceToPolygonEdge(feature) ==
  IF feature.geom \in {"Polygon", "MultiPolygon"} THEN toFixed2(feature.raw) ELSE NoNumber

NearestMsg(label, f, dist) == [kind |-> "Nearest", label |-> label, feature |-> f, dist |-> toFixed2(dist)]
NoNearbyMsg(label) == [kind |-> "NoNearby", label |-> label]

\* the comparison with the running minimum, taken as less-or-equal
CloserOrEqual(dist, minDist) == dist <= minDist

\* the comparison with the running minimum
CloserThan(dist, minDist) == dist < minDist

\* the forEach of getClosestFeatureByEdgeDistance from feature i on;
\* bestFeature is the position of the feature in the list (0: null)
RECURSIVE ClosestLoop(_, _, _)
ClosestLoop(features, i, acc) ==
  IF i > Len(features) THEN acc
  ELSE LET dist == parseFloat(getDistanceToPolygonEdge(features[i]))
       IN ClosestLoop(features, i + 1,
            IF ~isNaN(dist) /\ CloserThan(dist, acc.minDist)
            THEN [minDist |-> dist, bestFeature |-> i]
            ELSE acc)

\* the message getClosestFeatureByEdgeDistance passes to its callback
getClosestFeatureByEdgeDistance(err, features, label) ==
  IF ~err /\ Len(features) > 0
  THEN LET acc == ClosestLoop(features, 1, [minDist |-> Infinity, bestFeature |-> 0])
       IN IF acc.bestFeature # 0
          THEN NearestMsg(label, acc.bestFeature, acc.minDist)
          ELSE NoNearbyMsg(label)
  ELSE NoNearbyMsg(label)

ClosestCalls ==
  [fn : {"getClosestFeatureByEdgeDistance"}, err : BOOLEAN, features : FeatureLists, label : Labels]

GetClosestFeatureByEdgeDistanceReturn ==
  /\ call.fn = "getClosestFeatureByEdgeDistance"
  /\ ret = NotReturned
  /\ ret' = getClosestFeatureByEdgeDistance(call.err, call.features, call.label)
  /\ UNCHANGED <<call, clickVars, evVars, zoomVars>>

\* the answers of the two fire layers to the proximity query
NearbyAnswers == [err : BOOLEAN, features : SeqsUpTo(Features, MaxFeatures - 1)]

\* the inner loop of nearestByEdgeDistanceAcross over the features of layer lyr, from feature i on;
\* b is best (dist NaN: null)
RECURSIVE AcrossFeatures(_, _, _, _)
AcrossFeatures(lyr, features, i, b) ==
  IF i > Len(features) THEN b
  ELSE LET dist == parseFloat(getDistanceToPolygonEdge(features[i]))
       IN AcrossFeatures(lyr, features, i + 1,
            IF isNaN(dist) THEN b
            ELSE IF b.layer = 0 \/ CloserThan(dist, b.dist)
                 THEN [dist |-> dist, layer |-> lyr, feature |-> i]
                 ELSE b)

\* the outer loop leaving at the first answer with an error or no feature
AcrossLayersBreakOnSkip(answers, lyr, b) ==
  LET skip(l) == answers[l].err \/ Len(answers[l].features) = 0
  IN IF skip(1) THEN b
     ELSE LET b1 == AcrossFeatures(1, answers[1].features, 1, b)
          IN IF skip(2) THEN b1 ELSE AcrossFeatures(2, answers[2].features, 1, b1)

\* the outer loop of nearestByEdgeDistanceAcross from layer lyr on
RECURSIVE AcrossLayers(_, _, _)
AcrossLayers(answers, lyr, b) ==
  IF lyr > Len(answers) THEN b
  ELSE IF answers[lyr].err \/ Len(answers[lyr].features) = 0
       THEN AcrossLayers(answers, lyr + 1, b)
       ELSE AcrossLayers(answers, lyr + 1, AcrossFeatures(lyr, answers[lyr].features, 1, b))

\* the text nearestByEdgeDistanceAcross returns; answers[1] is LRA's, answers[2] SRA's
nearestByEdgeDistanceAcross(answers, label) ==
  LET b == AcrossLayers(answers, 1, [dist |-> NaN, layer |-> 0, feature |-> 0])
  IN IF b.layer # 0
     THEN NearestMsg(label, <<b.layer, b.feature>>, b.dist)
     ELSE NoNearbyMsg(label)

AcrossCalls ==
  [fn : {"nearestByEdgeDistanceAcross"}, answers : [1..2 -> NearbyAnswers], label : Labels]

NearestByEdgeDistanceAcrossReturn ==
  /\ call.fn = "nearestByEdgeDistanceAcross"
  /\ ret = NotReturned
  /\ ret' = nearestByEdgeDistanceAcross(call.answers, call.label)
  /\ UNCHANGED <<call, clickVars, evVars, zoomVars>>

-----------------------------------------------------------------------------
\* HAZARD IDENTIFY HELPERS (landslide). A field of a response is a text; "undefined" stands for
\* a field that is absent and "null" for one that is null.

\* largest class number an identify response carries
MaxNumber == 11

LANDSLIDE_CLASS_MAP ==
  [v \in 0..10 |-> <<"0", "I", "II", "III", "IV", "V", "VI", "VII", "VIII", "IX", "X">>[v + 1]]

\* Number(text): the empty text is 0, a decimal text its number, any other text NaN
Number(t) ==
  IF t = "" THEN 0
  ELSE IF \E n \in 0..MaxNumber : ToString(n) = t
       THEN CHOOSE n \in 0..MaxNumber : ToString(n) = t
       ELSE NaN

\* LANDSLIDE_CLASS_MAP[v]?.label ?? String(v)
ClassLabel(v) == IF v \in DOMAIN LANDSLIDE_CLASS_MAP THEN LANDSLIDE_CLASS_MAP[v] ELSE ToString(v)

\* the test of a text-label field: not undefined, not null, not empty
Truthy(t) == t \notin {"undefined", "null", ""}

exactKeys == <<"UniqueValue.Pixel Value", "Raster.Value">>
textKeys == <<"ClassName", "Class", "LABEL", "Class_Label", "CLASS_LABEL", "Category">>
textCandidates == <<"ClassName", "Class", "LABEL", "Class_Label", "CLASS_LABEL", "Category", "CAT">>
numCandidates == <<"Value", "GRAY_INDEX", "PixelValue", "gridcode", "CLASS_VAL">>

\* the attribute names an identify result carries here, in the order the service lists them
AttrKeyOrder ==
  <<"UniqueValue.Pixel Value", "Raster.Value", "GRAY_INDEX", "gridcode", "ClassName", "Category">>

\* the property names the first feature of the feature collection carries here
PropKeys == {"Category", "CAT", "CLASS_VAL"}

\* /(Pixel ?Value|^Value$|GRAY_INDEX|gridcode)$/i on the attribute names that occur
FuzzyMatch(k) == k \in {"UniqueValue.Pixel Value", "GRAY_INDEX", "gridcode"}

\* the texts a field can hold
FieldTexts(k) ==
  CASE k = "value" -> {"undefined", "null", "", "3", "High"}
    [] k = "UniqueValue.Pixel Value" -> {"undefined", "", "11", "High"}
    [] k = "Raster.Value" -> {"undefined", "3"}
    [] k = "GRAY_INDEX" -> {"undefined", "High", "10"}
    [] k = "gridcode" -> {"undefined", "11"}
    [] k = "ClassName" -> {"undefined", "", "Moderate"}
    [] k = "Category" -> {"undefined", "High"}
    [] k = "CAT" -> {"undefined", "Low"}
    [] k = "CLASS_VAL" -> {"undefined", "", "3"}

Range(q) == {q[i] : i \in DOMAIN q}

Reverse(q) == [i \in DOMAIN q |-> q[Len(q) + 1 - i]]

\* a field of an object; a name the object does not carry is undefined
Get(o, k) == IF k \in DOMAIN o THEN o[k] ELSE "undefined"

\* the first element of q that is in S, as a list of at most one element
First(q, S) ==
  LET In(x) == x \in S
      sel == SelectSeq(q, In)
  IN IF sel = <<>> THEN <<>> ELSE <<sel[1]>>

\* the direct value of the first result, when it is a number
DirectValue(r0) ==
  IF r0.value \notin {"undefined", "null"} /\ ~isNaN(Number(r0.value))
  THEN <<ClassLabel(Number(r0.value))>> ELSE <<>>

\* the first of the exact keys that holds a number
ExactKey(attrs) ==
  LET Holds(k) == Get(attrs, k) \notin {"undefined", "null", ""} /\ ~isNaN(Number(Get(attrs, k)))
      hit == First(exactKeys, {k \in Range(exactKeys) : Holds(k)})
  IN IF hit # <<>> THEN <<ClassLabel(Number(Get(attrs, hit[1])))>> ELSE <<>>

\* Object.keys(attrs).find(...): the first attribute, in the object's order, with a numeric-like
\* name and a number
NumericLikeKey(attrs, keys) ==
  LET Holds(k) == /\ Get(attrs, k) # "undefined"
                  /\ FuzzyMatch(k)
                  /\ Get(attrs, k) \notin {"null", ""}
                  /\ ~isNaN(Number(Get(attrs, k)))
      hit == First(keys, {k \in Range(keys) : Holds(k)})
  IN IF hit # <<>> THEN <<ClassLabel(Number(Get(attrs, hit[1])))>> ELSE <<>>

\* the first of the given text keys that holds a text
TextKey(o, keys) ==
  LET Holds(k) == Truthy(Get(o, k))
      hit == First(keys, {k \in Range(keys) : Holds(k)})
  IN IF hit # <<>> THEN <<Get(o, hit[1])>> ELSE <<>>

\* the first of the numeric candidates of the feature's properties that holds a number
NumCandidate(props) ==
  LET Holds(k) == Get(props, k) \notin {"undefined", "null", ""} /\ ~isNaN(Number(Get(props, k)))
      hit == First(numCandidates, {k \in Range(numCandidates) : Holds(k)})
  IN IF hit # <<>> THEN <<ClassLabel(Number(Get(props, hit[1])))>> ELSE <<>>

\* the sources with those of the feature collection tried first
ParseSourcesFallbackFirst(rawResponse, props) ==
  <<TextKey(props, textCandidates), NumCandidate(props)>>
  \o (IF rawResponse.results
      THEN <<DirectValue(rawResponse), ExactKey(rawResponse.attrs),
             NumericLikeKey(rawResponse.attrs, rawResponse.keys), TextKey(rawResponse.attrs, textKeys)>>
      ELSE <<>>)

\* the sources in the order the function tries them: those of the identify result (none when
\* the response has no result), then those of the feature collection
ParseSources(rawResponse, props) ==
  (IF rawResponse.results
   THEN <<DirectValue(rawResponse), ExactKey(rawResponse.attrs),
          NumericLikeKey(rawResponse.attrs, rawResponse.keys), TextKey(rawResponse.attrs, textKeys)>>
   ELSE <<>>)
  \o <<TextKey(props, textCandidates), NumCandidate(props)>>

NoLabel == [kind |-> "null"]

\* the label parseLandslideLabelFromIdentify returns: that of the first source that gives one
parseLandslideLabelFromIdentify(rawResponse, props) ==
  LET sources == ParseSources(rawResponse, props)
      hit == First(sources, {src \in Range(sources) : src # <<>>})
  IN IF hit # <<>> THEN [kind |-> "label", label |-> hit[1][1]] ELSE NoLabel

\* the objects with the given field names and one of the texts each field can hold
Objects(keys) == {o \in [keys -> UNION {FieldTexts(k) : k \in keys}] : \A k \in keys : o[k] \in FieldTexts(k)}

\* the identify responses: with or without a first result; the result's direct value, its
\* attributes, and the order in which the attributes are listed
RawResponses ==
  {[results |-> r, value |-> v, attrs |-> a, keys |-> ks] :
     r \in BOOLEAN, v \in FieldTexts("value"), a \in Objects(Range(AttrKeyOrder)),
     ks \in {AttrKeyOrder, Reverse(AttrKeyOrder)}}

LandslideCalls ==
  [fn : {"parseLandslideLabelFromIdentify"}, rawResponse : RawResponses, props : Objects(PropKeys)]

ParseLandslideLabelFromIdentifyReturn ==
  /\ call.fn = "parseLandslideLabelFromIdentify"
  /\ ret = NotReturned
  /\ ret' = parseLandslideLabelFromIdentify(call.rawResponse, call.props)
  /\ UNCHANGED <<call, clickVars, evVars, zoomVars>>

\* ------------------------------------------------- FAULTS: the property key of a popup field
\* Strings are sequences of characters, so that normalizeKey, includes and length are computed.
LowerCase ==
  <<"a", "b", "c", "d", "e", "f", "g", "h", "i", "j", "k", "l", "m",
    "n", "o", "p", "q", "r", "s", "t", "u", "v", "w", "x", "y", "z">>

UpperCase ==
  <<"A", "B", "C", "D", "E", "F", "G", "H", "I", "J", "K", "L", "M",
    "N", "O", "P", "Q", "R", "S", "T", "U", "V", "W", "X", "Y", "Z">>

Digits == <<"0", "1", "2", "3", "4", "5", "6", "7", "8", "9">>

\* const NAME_HINTS = [...]
NAME_HINTS ==
  <<<<"f", "a", "u", "l", "t">>,
    <<"n", "a", "m", "e">>,
    <<"f", "a", "u", "l", "t", "n", "a", "m", "e">>,
    <<"f", "a", "u", "l", "t", "_", "n", "a", "m", "e">>,
    <<"f", "a", "u", "l", "t", "_", "n", "a", "m", "e", "_">>,
    <<"f", "a", "u", "l", "t", "n", "a", "m">>,
    <<"f", "a", "u", "l", "t", "n", "m">>,
    <<"f", "a", "u", "l", "t", "n", "m", "_">>,
    <<"f", "a", "u", "l", "t", "_", "n", "m">>,
    <<"f", "_", "n", "a", "m", "e">> >>

\* const AGE_HINTS = [...]
AGE_HINTS ==
  <<<<"a", "g", "e">>,
    <<"a", "c", "t", "i", "v", "i", "t", "y">>,
    <<"r", "e", "c", "e", "n", "c", "y">>,
    <<"h", "o", "l", "o", "c", "e", "n", "e">>,
    <<"p", "l", "e", "i", "s", "t", "o", "c", "e", "n", "e">>,
    <<"q", "u", "a", "t", "e", "r", "n", "a", "r", "y">>,
    <<"t", "i", "m", "e">>,
    <<"a", "g", "e", "c", "l", "a", "s", "s">>,
    <<"a", "g", "e", "_", "c", "l", "a", "s", "s">>,
    <<"a", "g", "e", "_", "d", "e", "s", "c">>,
    <<"a", "g", "e", "o", "f", "m", "o", "v", "e">>,
    <<"a", "g", "e", "_", "o", "f", "_", "m", "o", "v", "e">>,
    <<"m", "o", "s", "t", "_", "r", "e", "c", "e", "n", "t">>,
    <<"l", "a", "s", "t", "_", "m", "o", "v", "e", "m", "e", "n", "t">>,
    <<"s", "l", "i", "p", "r", "a", "t", "e">>,
    <<"s", "l", "i", "p", "_", "r", "a", "t", "e">> >>

\* String.prototype.toLowerCase on one character
toLowerCase(c) ==
  IF \E i \in DOMAIN UpperCase : UpperCase[i] = c
  THEN LowerCase[CHOOSE i \in DOMAIN UpperCase : UpperCase[i] = c]
  ELSE c

\* the characters of [a-z0-9]
AlphaNumeric ==
  {LowerCase[i] : i \in DOMAIN LowerCase} \cup {Digits[i] : i \in DOMAIN Digits}

IsAlphaNumeric(c) == c \in AlphaNumeric

\* String(k).toLowerCase().replace(/[^a-z0-9]/g, "")
normalizeKey(k) == SelectSeq([i \in DOMAIN k |-> toLowerCase(k[i])], IsAlphaNumeric)

\* nk.includes(nh)
includes(nk, nh) ==
  \E i \in 0..(Len(nk) - Len(nh)) : SubSeq(nk, i + 1, i + Len(nh)) = nh

\* the hint loop of scoreKey from hint i on
RECURSIVE HintScore(_, _, _)
HintScore(nk, hints, i) ==
  IF i > Len(hints) THEN 0
  ELSE LET nh == normalizeKey(hints[i])
           rest == HintScore(nk, hints, i + 1)
       IN IF nh = <<>> THEN rest
          ELSE IF nk = nh THEN 50 + rest
          ELSE IF includes(nk, nh) THEN 20 + rest
          ELSE rest

\* Math.max(0, 10 - Math.min(10, nk.length / 6)), in sixths of a point
LengthBonus(nk) ==
  LET capped == IF Len(nk) < 60 THEN Len(nk) ELSE 60
  IN IF 60 - capped > 0 THEN 60 - capped ELSE 0

\* scoreKey(key, hints), in sixths of a point
scoreKey(key, hints) ==
  LET nk == normalizeKey(key) IN 6 * HintScore(nk, hints, 1) + LengthBonus(nk)

\* the values of a property: null, a string, anything else
Null == [type |-> "null", chars |-> <<>>]
Str(chars) == [type |-> "string", chars |-> chars]
NotAString == [type |-> "number", chars |-> <<>>]

\* v == null || v === ""
NullOrEmpty(v) == v.type = "null" \/ (v.type = "string" /\ v.chars = <<>>)

\* String.prototype.trim, for strings padded with spaces
RECURSIVE trim(_)
trim(chars) ==
  IF chars = <<>> THEN chars
  ELSE IF Head(chars) = " " THEN trim(Tail(chars))
  ELSE IF chars[Len(chars)] = " " THEN trim(SubSeq(chars, 1, Len(chars) - 1))
  ELSE chars

\* typeof v === "string" && v.trim().length >= 3
ReasonableString(v) == v.type = "string" /\ Len(trim(v.chars)) >= 3

\* the scoring pass replacing the best key on an equal score too
BetterOrEqual(s, bestKey) == bestKey = <<>> \/ s >= bestKey[1].score

\* !best || s > best.score
Better(s, bestKey) == bestKey = <<>> \/ s > bestKey[1].score

\* the scoring pass of pickBestKey from property i on; bestKey (`best`) is <<>> (null) or <<{key, score}>>
RECURSIVE ScoringPass(_, _, _, _)
ScoringPass(fields, hints, i, bestKey) ==
  IF i > Len(fields) THEN bestKey
  ELSE IF NullOrEmpty(fields[i].value) THEN ScoringPass(fields, hints, i + 1, bestKey)
  ELSE LET s == scoreKey(fields[i].key, hints)
       IN ScoringPass(fields, hints, i + 1,
                      IF Better(s, bestKey) THEN <<[key |-> fields[i].key, score |-> s]>> ELSE bestKey)

NoKey == [kind |-> "null"]
Key(k) == [kind |-> "key", key |-> k]

\* the fallback pass of pickBestKey: the first property with a reasonable string value
FallbackPass(fields) ==
  LET ok == {i \in DOMAIN fields : ReasonableString(fields[i].value)}
  IN IF ok = {} THEN NoKey
     ELSE Key(fields[CHOOSE i \in ok : \A j \in ok : i <= j].key)

\* pickBestKey(props, hints); the threshold 15 is 90 sixths
pickBestKey(props, hints) ==
  IF ~props.given THEN NoKey
  ELSE LET bestKey == ScoringPass(props.fields, hints, 1, <<>>)
       IN IF bestKey = <<>> \/ bestKey[1].score < 6 * 15
          THEN FallbackPass(props.fields)
          ELSE Key(bestKey[1].key)

\* the properties of a run: at most MaxProps of these keys, in any order, with these values
MaxProps == 2

PropertyKeys ==
  {<<"n", "a", "m", "e">>,
   <<"F", "a", "u", "l", "t", "_", "N", "a", "m", "e">>,
   <<"f", "a", "u", "l", "t", "_", "n", "a", "m", "e", "_", "f", "u", "l", "l">>,
   <<"a", "g", "e">>,
   <<"a", "g", "e", "_", "o", "f", "_", "m", "o", "v", "e", "_", "c", "l", "a", "s", "s">>,
   <<"i", "d">>}

PropertyValues ==
  {Null, Str(<<>>), Str(<<" ", " ", " ">>), Str(<<"a", "b", " ">>), Str(<<" ", "a", "b", "c">>),
   NotAString}

PropertyLists ==
  {q \in SeqsUpTo([key : PropertyKeys, value : PropertyValues], MaxProps) :
     \A i, j \in DOMAIN q : i # j => q[i].key # q[j].key}

PickBestKeyCalls ==
  [fn : {"pickBestKey"},
   props : {[given |-> FALSE, fields |-> <<>>]} \cup [given : {TRUE}, fields : PropertyLists],
   hints : {NAME_HINTS, AGE_HINTS}]

PickBestKeyReturn ==
  /\ call.fn = "pickBestKey"
  /\ ret = NotReturned
  /\ ret' = pickBestKey(call.props, call.hints)
  /\ UNCHANGED <<call, clickVars, evVars, zoomVars>>

InitHelpers ==
  /\ scenario = "helper"
  /\ InitClick
  /\ call \in ClosestCalls \cup AcrossCalls \cup LandslideCalls \cup PickBestKeyCalls
  /\ ret = NotReturned
  /\ InitEv
  /\ InitZoom

NextHelpers ==
  \/ GetClosestFeatureByEdgeDistanceReturn
  \/ NearestByEdgeDistanceAcrossReturn
  \/ ParseLandslideLabelFromIdentifyReturn
  \/ PickBestKeyReturn

SpecHelpers == InitHelpers /\ [][NextHelpers]_vars

\* the number a feature is ranked by (NaN: it cannot be ranked)
EdgeDistance(f) == parseFloat(getDistanceToPolygonEdge(f))

Rankable(answers) ==
  {p \in (1..2) \X (1..MaxFeatures) :
     /\ ~answers[p[1]].err
     /\ p[2] <= Len(answers[p[1]].features)
     /\ ~isNaN(EdgeDistance(answers[p[1]].features[p[2]]))}

NumericText(t) == t = "" \/ \E n \in 0..MaxNumber : ToString(n) = t

\* a class 0..10 through the class map, any other number as its decimal text
LabelOf(t) ==
  LET n == IF t = "" THEN 0 ELSE CHOOSE m \in 0..MaxNumber : ToString(m) = t
  IN IF n <= 10 THEN LANDSLIDE_CLASS_MAP[n] ELSE ToString(n)

Least(S) == CHOOSE i \in S : \A j \in S : i <= j

\* every text a field holds here
Texts == UNION {FieldTexts(k) : k \in {"value"} \cup Range(AttrKeyOrder) \cup PropKeys}

\* the label of the first field, in the order of names, whose text is in ok: <<label>>, or <<>>
\* for none; label gives the label of each text
FirstField(o, names, ok, label) ==
  LET hits == {i \in DOMAIN names : Get(o, names[i]) \in ok}
  IN IF hits = {} THEN <<>> ELSE <<label[Get(o, names[Least(hits)])]>>

\* source i of the landslide label for the call at hand: 1 the direct value, 2 the exact attribute
\* names, 3 the first attribute with a fuzzy-matching name and a number, 4 the text label
\* attributes; 5 and 6 the text and numeric properties of the feature collection's first feature
LandslideSource(i) ==
  LET r == call.rawResponse
      Num == {t \in Texts : t \notin {"undefined", "null", ""} /\ NumericText(t)}
      Direct == {t \in Texts : t \notin {"undefined", "null"} /\ NumericText(t)}
      Text == {t \in Texts : t \notin {"undefined", "null", ""}}
      Same == [t \in Text |-> t]
      LabelOfNumber == [t \in Direct |-> LabelOf(t)]
      fuzzy == SelectSeq(r.keys, FuzzyMatch)
  IN CASE i = 1 -> IF r.results THEN FirstField(r, <<"value">>, Direct, LabelOfNumber) ELSE <<>>
       [] i = 2 -> IF r.results THEN FirstField(r.attrs, exactKeys, Num, LabelOfNumber) ELSE <<>>
       [] i = 3 -> IF r.results THEN FirstField(r.attrs, fuzzy, Num, LabelOfNumber) ELSE <<>>
       [] i = 4 -> IF r.results THEN FirstField(r.attrs, textKeys, Text, Same) ELSE <<>>
       [] i = 5 -> FirstField(call.props, textCandidates, Text, Same)
       [] i = 6 -> FirstField(call.props, numCandidates, Num, LabelOfNumber)

\* the label of the first of the sources 1..n that gives one, null when none does
FirstSource(n) ==
  LET ok == {i \in 1..n : LandslideSource(i) # <<>>}
  IN IF ok = {} THEN [kind |-> "null"]
     ELSE [kind |-> "label", label |-> LandslideSource(Least(ok))[1]]

\* C13 (as claimed): parseLandslideLabelFromIdentify returns the label of the first source that
\* parses among the direct value, the exact attribute names, the fuzzy-named numeric attribute
\* and the text label attributes (a class 0..10 through LANDSLIDE_CLASS_MAP, another number as
\* its decimal text), and null exactly when none of these four parses.
C13_FirstOfFourSources ==
  (call.fn = "parseLandslideLabelFromIdentify" /\ ret # NotReturned) => ret = FirstSource(4)

\* C13 (amended): the same with two further sources tried after the four, also when the response
\* has no result: the text label properties, then the numeric properties, of the first feature
\* of the feature collection; null exactly when none of the six parses, and a label is never empty.
C13_FirstOfSixSources ==
  (call.fn = "parseLandslideLabelFromIdentify" /\ ret # NotReturned) =>
    /\ ret = FirstSource(6)
    /\ ret.kind = "label" => ret.label # ""

\* an identify result none of whose own fields parses, although it has a non-numeric direct
\* value and attributes, has returned the class of the feature collection's numeric property
C13_Witness ==
  /\ call.fn = "parseLandslideLabelFromIdentify"
  /\ ret # NotReturned
  /\ call.rawResponse.results
  /\ call.rawResponse.value = "High"
  /\ call.rawResponse.attrs["UniqueValue.Pixel Value"] = "High"
  /\ FirstSource(4) = [kind |-> "null"]
  /\ call.props["CLASS_VAL"] = "3"
  /\ ret = [kind |-> "label", label |-> "III"]

-----------------------------------------------------------------------------
\* EV CHARGERS LAYER. Time advances in ticks; the quiet period UI.EV_FETCH_DEBOUNCE_MS (600 ms)
\* is DebounceTicks ticks.

\* the quiet period of fetchDebounced, in ticks of 300 ms
DebounceTicks == 2

\* fetches started in a run
MaxFetches == 2

\* viewport changes in a run
MaxMoves == 2

\* longest list of chargers in a response
MaxChargers == 3

\* an entry of a response: a charger with both coordinates, one that fails the test
\* !ai.Latitude || !ai.Longitude (a coordinate missing, or 0), or null
Chargers == {"located", "unlocated", "null"}

\* what a fetch ends with: fetch rejects, r.json() rejects, the body is not an array, or the
\* body is an array of entries
Responses ==
  {[kind |-> k, chargers |-> <<>>] : k \in {"rejected", "unparseable", "notArray"}}
  \cup {[kind |-> "array", chargers |-> cs] : cs \in SeqsUpTo(Chargers, MaxChargers)}

\* debounce without the clearTimeout: every call leaves one more timeout pending
DebouncedNoClear(pending) == pending \cup {DebounceTicks}

\* debounce: the pending timeout is cleared and a new one set
Debounced(pending) == {DebounceTicks}

\* fetchInView returning at once only when the overlay is off
SkipsOnlyDisabled(enabled) == ~enabled

\* fetchInView returning at once only when a fetch is in flight
SkipsOnlyBusy(enabled) == isLoading

\* fetchInView returns at once: the overlay is off or a fetch is in flight
Skips(enabled) == ~enabled \/ isLoading

\* fetchInView, called when map.hasLayer(layer) is `enabled`
FetchInView(enabled) ==
  IF Skips(enabled)
  THEN UNCHANGED <<isLoading, fetching, nfetch>>
  ELSE /\ nfetch < MaxFetches
       /\ isLoading' = TRUE
       /\ nfetch' = nfetch + 1
       /\ fetching' = fetching \cup {[id |-> nfetch + 1, view |-> view]}

\* the forEach of the completion handler from entry i on: the markers added, and whether an
\* entry made it throw
RECURSIVE AddMarkers(_, _, _, _)
AddMarkers(id, chargers, i, added) ==
  IF i > Len(chargers) THEN [markers |-> added, threw |-> FALSE]
  ELSE IF chargers[i] = "null" THEN [markers |-> added, threw |-> TRUE]
  ELSE IF chargers[i] = "located" THEN AddMarkers(id, chargers, i + 1, added \cup {<<id, i>>})
  ELSE AddMarkers(id, chargers, i + 1, added)

\* the layer group after the promise chain of a fetch has run on response r
LayerAfter(id, r) ==
  CASE r.kind \in {"rejected", "unparseable"} -> evLayer
    [] r.kind = "notArray" -> {}
    [] r.kind = "array" -> AddMarkers(id, r.chargers, 1, {}).markers

\* the fetch ends in the catch: fetch or r.json() rejects, or the data handler throws
Fails(r) == r.kind # "array" \/ AddMarkers(0, r.chargers, 1, {}).threw

\* the response that last reached the data handler (then(data)), with its fetch and its viewport
ShownAfter(f, r) ==
  IF r.kind \in {"rejected", "unparseable"} THEN shown
  ELSE [id |-> f.id, view |-> f.view, kind |-> r.kind,
        located |-> {i \in DOMAIN r.chargers : r.chargers[i] = "located"}]

\* map "moveend": fetchDebounced
MoveEnd ==
  /\ view < MaxMoves
  /\ view' = view + 1
  /\ timers' = Debounced(timers)
  /\ quiet' = 0
  /\ burst' = IF timers # {} THEN burst + 1 ELSE 1
  /\ debFetches' = IF timers # {} THEN debFetches ELSE 0
  /\ dropped' = "none"
  /\ failed' = "none"
  /\ UNCHANGED <<evOn, isLoading, evLayer, fetching, nfetch, shown>>
  /\ UNCHANGED <<clickVars, fnVars, zoomVars>>

\* a timeout of fetchDebounced expires: fetchInView
TimerFire ==
  /\ 0 \in timers
  /\ timers' = timers \ {0}
  /\ FetchInView(evOn)
  /\ debFetches' = IF nfetch' # nfetch THEN debFetches + 1 ELSE debFetches
  /\ dropped' = IF nfetch' # nfetch THEN "none"
                ELSE IF evOn /\ isLoading THEN "bare"
                ELSE dropped
  /\ failed' = IF nfetch' # nfetch THEN "none" ELSE failed
  /\ UNCHANGED <<evOn, evLayer, view, shown, quiet, burst>>
  /\ UNCHANGED <<clickVars, fnVars, zoomVars>>

\* time passes by one tick; a timeout that is due runs first
Tick ==
  /\ 0 \notin timers
  /\ timers' = {r - 1 : r \in timers}
  /\ quiet' = IF quiet <= DebounceTicks THEN quiet + 1 ELSE quiet
  /\ UNCHANGED <<evOn, isLoading, evLayer, fetching, nfetch, view, shown, burst, debFetches, dropped, failed>>
  /\ UNCHANGED <<clickVars, fnVars, zoomVars>>

\* overlayadd going through fetchDebounced
OverlayAddDebounced ==
  /\ ~evOn
  /\ evOn' = TRUE
  /\ timers' = Debounced(timers)
  /\ UNCHANGED <<isLoading, fetching, nfetch, dropped, failed>>
  /\ UNCHANGED <<evLayer, view, shown, quiet, burst, debFetches>>
  /\ UNCHANGED <<clickVars, fnVars, zoomVars>>

\* map "overlayadd" for the layer (layers control or toggleAtZoom): immediate fetchInView
OverlayAdd ==
  /\ ~evOn
  /\ evOn' = TRUE
  /\ FetchInView(TRUE)
  /\ dropped' = IF nfetch' # nfetch THEN "none"
                ELSE IF timers # {} THEN "armed" ELSE "bare"
  /\ failed' = "none"
  /\ UNCHANGED <<timers, evLayer, view, shown, quiet, burst, debFetches>>
  /\ UNCHANGED <<clickVars, fnVars, zoomVars>>

\* map "overlayremove" for the layer: layer.clearLayers()
OverlayRemove ==
  /\ evOn
  /\ evOn' = FALSE
  /\ evLayer' = {}
  /\ UNCHANGED <<isLoading, timers, fetching, nfetch, view, shown, quiet, burst, debFetches, dropped, failed>>
  /\ UNCHANGED <<clickVars, fnVars, zoomVars>>

\* the end of the promise chain starting the fetch that a dropped attempt asked for
FetchDoneThenQueued(f, r) ==
  /\ f \in fetching
  /\ evLayer' = LayerAfter(f.id, r)
  /\ shown' = ShownAfter(f, r)
  /\ IF dropped # "none" /\ evOn /\ nfetch < MaxFetches
     THEN /\ isLoading' = TRUE
          /\ nfetch' = nfetch + 1
          /\ fetching' = (fetching \ {f}) \cup {[id |-> nfetch + 1, view |-> view]}
     ELSE /\ isLoading' = FALSE
          /\ fetching' = fetching \ {f}
          /\ UNCHANGED nfetch
  /\ failed' = IF Fails(r) THEN (IF timers # {} THEN "armed" ELSE "bare") ELSE "none"
  /\ UNCHANGED <<evOn, timers, view, quiet, burst, debFetches, dropped>>
  /\ UNCHANGED <<clickVars, fnVars, zoomVars>>

\* the end of the promise chain leaving the busy flag set when the fetch has failed
FetchDoneKeepsBusy(f, r) ==
  /\ f \in fetching
  /\ fetching' = fetching \ {f}
  /\ evLayer' = LayerAfter(f.id, r)
  /\ isLoading' = Fails(r)
  /\ shown' = ShownAfter(f, r)
  /\ failed' = IF Fails(r) THEN (IF timers # {} THEN "armed" ELSE "bare") ELSE "none"
  /\ UNCHANGED <<evOn, timers, nfetch, view, quiet, burst, debFetches, dropped>>
  /\ UNCHANGED <<clickVars, fnVars, zoomVars>>

\* the promise chain of fetch f runs to its end on response r: then/then, or catch
FetchDone(f, r) ==
  /\ f \in fetching
  /\ fetching' = fetching \ {f}
  /\ evLayer' = LayerAfter(f.id, r)
  /\ isLoading' = FALSE
  /\ shown' = ShownAfter(f, r)
  /\ failed' = IF Fails(r) THEN (IF timers # {} THEN "armed" ELSE "bare") ELSE "none"
  /\ UNCHANGED <<evOn, timers, nfetch, view, quiet, burst, debFetches, dropped>>
  /\ UNCHANGED <<clickVars, fnVars, zoomVars>>

InitEvLayer ==
  /\ scenario = "ev"
  /\ InitClick
  /\ FnIdle
  /\ InitEv
  /\ InitZoom

NextEv ==
  \/ MoveEnd
  \/ TimerFire
  \/ Tick
  \/ OverlayAdd
  \/ OverlayRemove
  \/ \E f \in fetching, r \in Responses : FetchDone(f, r)

SpecEv == InitEvLayer /\ [][NextEv]_vars

\* the step is an overlayadd for the EV layer
Enabling == ~evOn /\ evOn'

\* the step starts a fetch
Starting == nfetch' # nfetch

\* C14: with the overlay enabled and no fetch in flight, a burst of moveend events, each arriving
\* before the quiet period after the previous one is over, starts exactly one fetch, a full
\* quiet period after the last event of the burst, and none during the burst.
C14_BurstStartsOneFetch ==
  /\ [](debFetches <= 1)
  /\ [](debFetches = 1 => quiet >= DebounceTicks)
  /\ [](quiet > DebounceTicks => timers = {})
  /\ [][TimerFire => /\ quiet = DebounceTicks
                     /\ (evOn /\ ~isLoading) => (nfetch' = nfetch + 1 /\ debFetches' = 1)]_vars
  /\ [][view' # view => ~Starting]_vars

\* a burst of two moveend events has been followed, a quiet period after the second, by its fetch
C14_Witness ==
  /\ burst >= 2
  /\ debFetches = 1
  /\ quiet = DebounceTicks
  /\ isLoading
  /\ timers = {}

\* C15: at most one fetch is in flight in every state, and the busy flag is true exactly while
\* a fetch is in flight.
C15_SingleFlight ==
  /\ Cardinality(fetching) <= 1
  /\ isLoading <=> fetching # {}

\* a fetch is in flight and an attempt made meanwhile has met the busy flag
C15_Witness ==
  /\ isLoading
  /\ Cardinality(fetching) = 1
  /\ dropped # "none"

\* C16: no fetch starts while the overlay is off: a timeout that expires while it is off starts
\* none, and a moveend starts none.
C16_NoFetchWhileDisabled ==
  /\ [][Starting => (evOn' /\ isLoading')]_vars
  /\ [][(TimerFire /\ ~evOn) => (~Starting /\ fetching' = fetching /\ isLoading' = isLoading)]_vars
  /\ [][view' # view => (~Starting /\ fetching' = fetching)]_vars

\* after the overlay had been on, the timeout of a moveend has expired with the overlay off
\* and has started nothing
C16_Witness ==
  /\ ~evOn
  /\ nfetch >= 1
  /\ view > 0
  /\ timers = {}
  /\ quiet = DebounceTicks
  /\ debFetches = 0
  /\ dropped = "none"
  /\ fetching = {}

\* the step ends a fetch
Completing == \E f \in fetching : f \notin fetching'

\* C17 (as claimed): a fetch attempt made while a fetch is in flight is dropped: the completion
\* of the fetch in flight starts no fetch, and the next fetch starts only at a later moveend or
\* overlayadd event.
C17_DroppedNotQueued ==
  /\ [][Completing => ~Starting]_vars
  /\ [][(dropped # "none" /\ Starting) => Enabling]_vars

\* C17 (amended): the same, except that a timeout already pending when the attempt was dropped
\* (set by an earlier moveend) still starts its fetch when it expires.
C17_DroppedNotQueuedButPending ==
  /\ [][Completing => ~Starting]_vars
  /\ [][(dropped = "bare" /\ Starting) => Enabling]_vars
  /\ [][(dropped = "armed" /\ Starting) => (Enabling \/ (timers # {} /\ TimerFire))]_vars
  /\ [](dropped = "bare" => timers = {})

\* the fetch in flight has completed after an attempt was dropped, and nothing is in flight or
\* pending
C17_Witness ==
  /\ dropped = "bare"
  /\ evOn
  /\ ~isLoading
  /\ fetching = {}
  /\ timers = {}
  /\ nfetch = 1

\* C18 (as claimed): every overlayadd starts a fetch in the same step, in every state.
C18_EnableAlwaysFetches == [][Enabling => (nfetch' = nfetch + 1)]_vars

\* C18 (amended): an overlayadd that finds no fetch in flight starts a fetch for the current
\* viewport in the same step, without setting a timeout; one that finds a fetch in flight
\* starts none and leaves that fetch as it is.
C18_EnableFetchesUnlessBusy ==
  [][Enabling =>
       /\ timers' = timers
       /\ IF isLoading
          THEN ~Starting /\ fetching' = fetching /\ isLoading'
          ELSE /\ nfetch' = nfetch + 1
               /\ isLoading'
               /\ fetching' = {[id |-> nfetch', view |-> view]}]_vars

\* the overlay was switched off and on again while its first fetch was in flight: no second fetch
C18_Witness ==
  /\ evOn
  /\ view = 0
  /\ nfetch = 1
  /\ isLoading
  /\ dropped = "bare"

\* C19: while the overlay is off the layer group is empty, also after a fetch that was in
\* flight when it was switched off has completed.
C19_DisabledStaysEmpty == ~evOn => evLayer = {}

\* the markers of every entry of the response shown that has both coordinates
CompleteMarkers == {<<shown.id, i>> : i \in shown.located}

\* C20: the layer group is empty or holds exactly the markers of all located chargers of one
\* response, never part of a response.
C20_WholeResponseOrEmpty ==
  evLayer = {} \/ (shown.kind = "array" /\ evLayer = CompleteMarkers)

\* C21 (as claimed): a fetch that fails resets the busy flag, so that the next overlayadd starts
\* a fetch, and after the failure no fetch starts before a moveend or overlayadd event.
C21_FailureResetsNoRetry ==
  /\ [](failed # "none" => (~isLoading /\ fetching = {}))
  /\ [][(failed # "none" /\ Enabling) => Starting]_vars
  /\ [][(failed # "none" /\ Starting) => Enabling]_vars

\* C21 (amended): the same, except that a timeout already pending at the failure (set by a
\* moveend while the fetch was in flight) still starts its fetch when it expires.
C21_FailureResetsNoRetryButPending ==
  /\ [](failed # "none" => (~isLoading /\ fetching = {}))
  /\ [][(failed # "none" /\ Enabling) => Starting]_vars
  /\ [][(failed = "bare" /\ Starting) => Enabling]_vars
  /\ [][(failed = "armed" /\ Starting) => (Enabling \/ (timers # {} /\ TimerFire))]_vars
  /\ [](failed = "bare" => timers = {})

\* the only fetch so far has failed with the overlay on and nothing pending: the busy flag is
\* reset and nothing is in flight
C21_Witness ==
  /\ failed = "bare"
  /\ evOn
  /\ nfetch = 1
  /\ ~isLoading
  /\ fetching = {}

\* ------------------------------------------------- the zoom rules on their own
InitZoomRules ==
  /\ scenario = "zoom"
  /\ InitClick
  /\ FnIdle
  /\ InitEv
  /\ InitZoom

NextZoom ==
  \/ \E z \in Zooms : ZoomEnd(z)
  \/ \E layer \in ZoomToggles : LayersControlAdd(layer)
  \/ \E layer \in ZoomToggles : LayersControlRemove(layer)

SpecZoom == InitZoomRules /\ [][NextZoom]_vars

\* the step is a zoomend event
ZoomChange == \E z \in Zooms : ZoomEnd(z)

\* C22: after every zoom-change event each of the ten overlays registered with toggleAtZoom is
\* displayed if and only if the zoom is at least 14, whatever was displayed before the event.
C22_PoiShownFromMinZoom ==
  [][ZoomChange => \A layer \in PoiOverlays : (layer \in displayed' <=> zoom' >= 14)]_vars

\* the zoom has reached 14 and the ten overlays are on the map, the roads switched with them
C22_Witness ==
  /\ zoom = 14
  /\ PoiOverlays \subseteq displayed
  /\ "allRoadsLayer" \in displayed
  /\ "highwayLayer" \notin displayed

\* C23: after every zoom-change event exactly one of the highway layer and the all-roads layer
\* is displayed: the highway layer if and only if the zoom is at most 10, the all-roads layer
\* if and only if it is above 10, whatever was displayed before the event.
C23_OneRoadsLayerBySwitchPoint ==
  [][ZoomChange =>
       /\ ("highwayLayer" \in displayed' <=> zoom' <= 10)
       /\ ("allRoadsLayer" \in displayed' <=> zoom' > 10)
       /\ Cardinality(displayed' \cap {"highwayLayer", "allRoadsLayer"}) = 1]_vars

\* the zoom is back at the switch point with the highways alone, the POI overlays gone
C23_Witness ==
  /\ zoom = 10
  /\ displayed \cap {"highwayLayer", "allRoadsLayer"} = {"highwayLayer"}
  /\ displayed \cap PoiOverlays = {}
  /\ "faultsLayer" \in displayed

\* the threshold rules: a POI overlay from zoom 14 on, the highways up to zoom 10, all roads above
isVisible(layer, z) ==
  IF layer = "highwayLayer" THEN z <= 10
  ELSE IF layer = "allRoadsLayer" THEN z > 10
  ELSE z >= 14

\* C24: in every reachable state, the states between zoom events after the user has switched an
\* overlay in the layers control included, the displayed POI overlays and roads layers are
\* those the threshold rules give for the current zoom.
C24_DisplayedIsRuleOfZoom ==
  \A layer \in PoiOverlays \cup {"highwayLayer", "allRoadsLayer"} :
    layer \in displayed <=> isVisible(layer, zoom)

\* C29: while the faults group is enabled it holds exactly one sub-layer after each add and each
\* zoom-change event, the local layer if and only if the zoom is at least 11 and the regional
\* layer otherwise; while it is disabled it is empty and a zoom-change event does not modify it.
C29_FaultsGroupFollowsZoom ==
  /\ []("faultsLayer" \in displayed =>
         /\ Cardinality(faultsGroup) = 1
         /\ ("local" \in faultsGroup <=> zoom >= 11)
         /\ ("regional" \in faultsGroup <=> zoom < 11))
  /\ []("faultsLayer" \notin displayed => faultsGroup = {})
  /\ [][("faultsLayer" \notin displayed /\ ZoomChange) => faultsGroup' = faultsGroup]_vars

\* the group is enabled at the switch zoom and holds the local layer alone
C29_Witness ==
  /\ "faultsLayer" \in displayed
  /\ syncing
  /\ zoom = 11
  /\ faultsGroup = {"local"}

\* C25: the spinner is visible in every state in which a click's aggregation is outstanding,
\* also when two clicks overlap: the report of an earlier click does not hide the spinner
\* while a later click has not rendered its report.
C25_SpinnerWhileOutstanding == \A c \in Started : renders[c] = 0 => spinner

\* the texts of the messages a click can get from its own queries at a point inside a zone of
\* every layer, and at a point with nothing in reach
OwnMessages(w) ==
  IF w = "inZone" THEN {"InsideLRA", "InsideSRA", "Inside", "Value"} ELSE {"NoNearby", "NoData"}

\* C26: the slot table and the settled counter are private to one click: with two overlapping
\* clicks a callback of one click changes no slot and no counter of the other, and the report
\* of a click holds only outcomes of that click's own queries.
C26_SlotsAndCounterPerClick ==
  /\ [][\A c \in Clicks :
          (results'[c] # results[c] \/ completed'[c] # completed[c]) =>
            \/ nclicks' = c /\ nclicks = c - 1
            \/ \E q \in Queries : Req(c, q) \in inflight /\ Req(c, q) \notin inflight']_vars
  /\ [](panel.kind = "report" =>
          /\ panel.body = Ordered(results[panel.click])
          /\ \A i \in DOMAIN panel.body : panel.body[i][2] \in OwnMessages(world[panel.click]))

\* two overlapping clicks at different kinds of point have both rendered, the first one last
C26_Witness ==
  /\ world[1] = "inZone"
  /\ world[2] = "remote"
  /\ renders[1] = 1
  /\ renders[2] = 1
  /\ panel.kind = "report"
  /\ panel.click = 1

\* C27: whenever the EV overlay is enabled with no fetch in flight and no debounce timer pending,
\* the markers displayed are those of a fetch issued for the current viewport, unless a fetch
\* issued since the last viewport change has not succeeded; in particular a viewport change
\* during a fetch never leaves the markers of the older viewport displayed at quiescence.
\* (Stated in its weakest form: markers of an older viewport are displayed at quiescence only
\* if some fetch was issued after the one they came from.)
C27_QuiescentShowsCurrentView ==
  (evOn /\ fetching = {} /\ timers = {} /\ evLayer # {}) =>
    (shown.view = view \/ nfetch > shown.id)

\* C28: a fetch that fails (the request rejected, the body unparseable, the body not an array,
\* an array with a null entry) leaves the markers displayed exactly as they were.
C28_FailureKeepsDataset ==
  [][(Completing /\ failed' # "none") => evLayer' = evLayer]_vars

\* how well a key matches a list of hints: 2 it equals a hint after normalisation, 1 it only
\* contains one, 0 neither
MatchQuality(key, hints) ==
  LET nk == normalizeKey(key)
      nhs == {normalizeKey(hints[i]) : i \in DOMAIN hints} \ {<<>>}
  IN IF nk \in nhs THEN 2
     ELSE IF \E nh \in nhs : includes(nk, nh) THEN 1
     ELSE 0

\* C30: among the properties whose value is neither null nor empty, pickBestKey returns a key
\* that exactly matches a hint in preference to any key that only partially matches hints, and
\* among keys of equal match quality the shortest; it never returns a key with a null or empty
\* value. (The order of preference is required only where a key matches a hint, so that the
\* scoring pass decides.)
C30_ExactThenShortest ==
  (call.fn = "pickBestKey" /\ ret # NotReturned /\ call.props.given) =>
    LET fields == call.props.fields
        valued == {i \in DOMAIN fields : ~NullOrEmpty(fields[i].value)}
        quality(key) == MatchQuality(key, call.hints)
        length(key) == Len(normalizeKey(key))
    IN /\ ret.kind = "key" => \E i \in valued : fields[i].key = ret.key
       /\ (\E i \in valued : quality(fields[i].key) > 0) =>
            /\ ret.kind = "key"
            /\ \A i \in valued :
                 \/ quality(fields[i].key) < quality(ret.key)
                 \/ /\ quality(fields[i].key) = quality(ret.key)
                    /\ length(ret.key) <= length(fields[i].key)

====
